---------------------------- MODULE Spec2Model ----------------------------
(***************************************************************************)
(* Cats and dogs food: a Sokoban-style puzzle.                             *)
(*                                                                         *)
(* The model covers the level grid and moveCat (levels.ts), the            *)
(* breadth-first solve (solver.ts), computeProgress (progress.ts) and the  *)
(* App / Game components that hold the grid and the moves counter          *)
(* (app.tsx).  Rows and columns are numbered from 1 here and from 0 in     *)
(* the TypeScript; every index is shifted by one and nothing else.         *)
(*                                                                         *)
(* A string of the program is a sequence of one-character strings, so      *)
(* that join and split are computed and not assumed.                       *)
(***************************************************************************)
EXTENDS Integers, Sequences, FiniteSets, TLC

\* ------------------------------------------------------------------ bounds
\* The grids handed to makeGridString on its own have at most MaxKeyCells
\* cells.
MaxKeyCells == 2

\* The move counts handed to computeProgress on its own are at most MaxCount.
MaxCount == 10

\* The Game accepts at most MaxMoves moves between two resets.
MaxMoves == 6

\* reset() runs at most MaxResets times (the first run is the mount effect).
MaxResets == 2

\* ------------------------------------------------------------- cell values
WALL == "#"
CAT == "@"
CAT_BOWL == "+"
FOOD == "$"
FULL_BOWL == "*"
BOWL == "."
EMPTY == " "

Cell == {WALL, CAT, CAT_BOWL, FOOD, FULL_BOWL, BOWL, EMPTY}

\* What a thrown Error leaves in place of a cell, a location or a grid.
ThrownCell == "Error"
ThrownLocation == <<0, 0>>
ThrownGrid == <<>>

\* Reading past the end of a row gives undefined in JavaScript.
Undefined == "undefined"

\* solve's "unsolvable" result, and a value that was never assigned.
null == -1
unset == -2

\* What a call leaves in place of its result when an Error escapes from it.
raised == -3

\* ------------------------------------------------------------------ levels
\* levels.json is data; these are small levels with walls on every border.

\* Scenario A: one push wins.
LevelA ==
  << <<"#", "#", "#", "#", "#">>,
     <<"#", ".", "$", "@", "#">>,
     <<"#", "#", "#", "#", "#">> >>

\* Scenario B: the food is against the wall, the bowl is out of reach.
LevelB ==
  << <<"#", "#", "#", "#", "#">>,
     <<"#", ".", "@", "$", "#">>,
     <<"#", "#", "#", "#", "#">> >>

\* A room: the cat walks around the food and pushes it onto the bowl.
LevelRoom ==
  << <<"#", "#", "#", "#", "#", "#">>,
     <<"#", " ", " ", "@", " ", "#">>,
     <<"#", " ", " ", "$", ".", "#">>,
     <<"#", "#", "#", "#", "#", "#">> >>

\* A corridor with a full bowl, two foods and one empty bowl: pushing the
\* left food puts two foods in a row.
LevelCorridor ==
  << <<"#", "#", "#", "#", "#", "#", "#", "#", "#">>,
     <<"#", " ", "*", " ", "$", "@", "$", ".", "#">>,
     <<"#", "#", "#", "#", "#", "#", "#", "#", "#">> >>

\* Two foods and two bowls: each food is one push away from its bowl.
LevelTwo ==
  << <<"#", "#", "#", "#", "#">>,
     <<"#", "@", "$", ".", "#">>,
     <<"#", " ", "$", " ", "#">>,
     <<"#", " ", ".", " ", "#">>,
     <<"#", "#", "#", "#", "#">> >>

LEVELS == <<LevelA, LevelB, LevelRoom, LevelCorridor, LevelTwo>>

\* ---------------------------------------------------------------- levels.ts
\* const name = value: the value is computed once and then used by name.
const(value, Body(_)) == CHOOSE r \in {Body(v) : v \in {value}} : TRUE

makeGridFromLines(lines) == [r \in 1..Len(lines) |-> lines[r]]

\* strs.join(sep), from the i-th string on
RECURSIVE joinFrom(_, _, _)
joinFrom(strs, sep, i) ==
  IF i > Len(strs) THEN <<>>
  ELSE IF i = Len(strs) THEN strs[i]
  ELSE strs[i] \o sep \o joinFrom(strs, sep, i + 1)

join(strs, sep) == joinFrom(strs, sep, 1)

\* (mutant) the rows are joined with nothing between them
makeGridString_noNewline(grid) ==
  const([r \in 1..Len(grid) |-> join([c \in 1..Len(grid[r]) |-> <<grid[r][c]>>], <<>>)],
        LAMBDA rows : join(rows, <<>>))

makeGridString(grid) ==
  const([r \in 1..Len(grid) |-> join([c \in 1..Len(grid[r]) |-> <<grid[r][c]>>], <<>>)],
        LAMBDA rows : join(rows, <<"\n">>))

getSize(grid) == <<Len(grid), Len(grid[1])>>

Positions(grid) == UNION {{<<r, c>> : c \in 1..Len(grid[r])} : r \in 1..Len(grid)}

\* (mutant) only BOWL is counted: a bowl with the cat on it passes for full
getEmptyBowlCount_bowlOnly(grid) ==
  Cardinality({p \in Positions(grid) : grid[p[1]][p[2]] = BOWL})

getEmptyBowlCount(grid) ==
  Cardinality({p \in Positions(grid) : grid[p[1]][p[2]] \in {BOWL, CAT_BOWL}})

\* The scan runs column by column, and down each column.
\* (mutant) no throw after the scan: the first cell is returned
getCatLocation_first(grid) ==
  LET cats == {p \in Positions(grid) : grid[p[1]][p[2]] \in {CAT, CAT_BOWL}}
  IN IF cats = {} THEN <<1, 1>>
     ELSE CHOOSE p \in cats :
            \A q \in cats : p[2] < q[2] \/ (p[2] = q[2] /\ p[1] <= q[1])

getCatLocation(grid) ==
  LET cats == {p \in Positions(grid) : grid[p[1]][p[2]] \in {CAT, CAT_BOWL}}
  IN IF cats = {} THEN ThrownLocation
     ELSE CHOOSE p \in cats :
            \A q \in cats : p[2] < q[2] \/ (p[2] = q[2] /\ p[1] <= q[1])

\* (mutant) default: return cell
addCat_lenient(cell) ==
  CASE cell = BOWL -> CAT_BOWL
    [] cell = EMPTY -> CAT
    [] OTHER -> cell

\* (mutant) the cat hides the bowl it steps on
addCat_noBowl(cell) ==
  CASE cell = BOWL -> CAT
    [] cell = EMPTY -> CAT
    [] OTHER -> ThrownCell

addCat(cell) ==
  CASE cell = BOWL -> CAT_BOWL
    [] cell = EMPTY -> CAT
    [] OTHER -> ThrownCell

\* (mutant) the two results exchanged
removeCat_swapped(cell) ==
  CASE cell = CAT -> BOWL
    [] cell = CAT_BOWL -> EMPTY
    [] OTHER -> ThrownCell

\* (mutant) the bowl under the cat is forgotten
removeCat_noBowl(cell) ==
  CASE cell = CAT -> EMPTY
    [] cell = CAT_BOWL -> EMPTY
    [] OTHER -> ThrownCell

removeCat(cell) ==
  CASE cell = CAT -> EMPTY
    [] cell = CAT_BOWL -> BOWL
    [] OTHER -> ThrownCell

copyGrid(grid) == [r \in 1..Len(grid) |-> [c \in 1..Len(grid[r]) |-> grid[r][c]]]

\* grid[y][x] as JavaScript reads it: a missing row throws, a missing column
\* reads undefined.
cellAt(grid, y, x) ==
  IF y \notin 1..Len(grid) THEN ThrownCell
  ELSE IF x \notin 1..Len(grid[y]) THEN Undefined
  ELSE grid[y][x]

\* (mutant) grid[x][y] = cell, where there is such a cell
setCell_xy(grid, y, x, cell) ==
  IF x \in 1..Len(grid) /\ y \in 1..Len(grid[x])
  THEN [grid EXCEPT ![x][y] = cell]
  ELSE grid

\* grid[y][x] = cell
setCell(grid, y, x, cell) == [grid EXCEPT ![y][x] = cell]

\* (mutant) the cat walks onto whatever is not food
canMoveTo_notFood(moveToCell) == moveToCell # FOOD /\ moveToCell # FULL_BOWL

\* "We can always move to EMPTY or BOWL cells"
canMoveTo(moveToCell) == moveToCell = EMPTY \/ moveToCell = BOWL

\* (mutant) a plain else: whatever the cat cannot walk onto is pushed
isFood_else(moveToCell) == TRUE

\* "We can move to FOOD cells if the food can be pushed"
isFood(moveToCell) == moveToCell = FOOD \/ moveToCell = FULL_BOWL

\* (mutant) a full bowl counts as a free landing cell
canPushTo_fullBowl(newFoodCell) ==
  newFoodCell = EMPTY \/ newFoodCell = BOWL \/ newFoodCell = FULL_BOWL

\* (mutant) anything but a wall counts as a free landing cell
canPushTo_notWall(newFoodCell) == newFoodCell # WALL

\* (mutant) the landing cell is not looked at
canPushTo_any(newFoodCell) == TRUE

\* "We can actually move the food if it's going to an EMPTY or BOWL cell"
canPushTo(newFoodCell) == newFoodCell = EMPTY \/ newFoodCell = BOWL

\* (mutant) the cat's old cell is left as it was
vacatedCell_kept(currentCell) == currentCell

\* (mutant) the cat takes the bowl with it: what it leaves is always EMPTY
vacatedCell_empty(currentCell) ==
  IF removeCat(currentCell) = ThrownCell THEN ThrownCell ELSE EMPTY

\* What the cat leaves behind.
vacatedCell(currentCell) == removeCat(currentCell)

\* (mutant) the bowl under the pushed food is forgotten
catOnFoodCell_noBowl(moveToCell) == addCat(EMPTY)

\* The cell the food was on, now with the cat on it.
catOnFoodCell(moveToCell) ==
  IF moveToCell = FULL_BOWL THEN addCat(BOWL) ELSE addCat(EMPTY)

\* (mutant) the landing cell is cleared and the food is never put down
pushedFoodCell_dropped(newFoodCell) == IF newFoodCell = EMPTY THEN EMPTY ELSE BOWL

\* The cell the food lands on.
pushedFoodCell(newFoodCell) == IF newFoodCell = EMPTY THEN FOOD ELSE FULL_BOWL

\* const [moveToY, moveToX] = [catY + y, catX + x]
moveToIndex(catY, catX, y, x) == <<catY + y, catX + x>>

\* (mutant) the landing cell is looked for one step too far
newFoodIndex_far(moveToY, moveToX, y, x) == <<moveToY + 2 * y, moveToX + 2 * x>>

\* const [newFoodX, newFoodY] = [moveToX + x, moveToY + y], as <<row, column>>
newFoodIndex(moveToY, moveToX, y, x) == <<moveToY + y, moveToX + x>>

moveCat(grid, y, x) ==
  const(copyGrid(grid), LAMBDA newGrid :
  const(getCatLocation(newGrid), LAMBDA loc :
  IF loc = ThrownLocation THEN ThrownGrid
  ELSE
    LET catY == loc[1]
        catX == loc[2]
        currentCell == newGrid[catY][catX]
        moveToY == moveToIndex(catY, catX, y, x)[1]
        moveToX == moveToIndex(catY, catX, y, x)[2]
        moveToCell == cellAt(newGrid, moveToY, moveToX)
    IN
    IF moveToCell = ThrownCell THEN ThrownGrid
    ELSE IF canMoveTo(moveToCell) THEN
      IF ThrownCell \in {vacatedCell(currentCell), addCat(moveToCell)} THEN ThrownGrid
      ELSE setCell(setCell(newGrid, catY, catX, vacatedCell(currentCell)),
                   moveToY, moveToX, addCat(moveToCell))
    ELSE IF isFood(moveToCell) THEN
      LET newFoodX == newFoodIndex(moveToY, moveToX, y, x)[2]
          newFoodY == newFoodIndex(moveToY, moveToX, y, x)[1]
          newFoodCell == cellAt(newGrid, newFoodY, newFoodX)
      IN
      IF newFoodCell = ThrownCell THEN ThrownGrid
      ELSE IF canPushTo(newFoodCell) THEN
        IF ThrownCell \in {vacatedCell(currentCell), catOnFoodCell(moveToCell)} THEN ThrownGrid
        ELSE setCell(setCell(setCell(newGrid, catY, catX, vacatedCell(currentCell)),
                             moveToY, moveToX, catOnFoodCell(moveToCell)),
                     newFoodY, newFoodX, pushedFoodCell(newFoodCell))
      ELSE newGrid
    ELSE newGrid))

\* The calls of removeCat and addCat that moveCat(grid, y, x) makes, each
\* with its argument.
catCalls(grid, y, x) ==
  const(getCatLocation(grid), LAMBDA loc :
  IF loc = ThrownLocation THEN {}
  ELSE
    LET currentCell == grid[loc[1]][loc[2]]
        moveTo == moveToIndex(loc[1], loc[2], y, x)
        moveToCell == cellAt(grid, moveTo[1], moveTo[2])
    IN
    IF moveToCell = ThrownCell THEN {}
    ELSE IF canMoveTo(moveToCell)
    THEN {<<"removeCat", currentCell>>, <<"addCat", moveToCell>>}
    ELSE IF isFood(moveToCell) THEN
      LET newFood == newFoodIndex(moveTo[1], moveTo[2], y, x)
          newFoodCell == cellAt(grid, newFood[1], newFood[2])
      IN
      IF newFoodCell # ThrownCell /\ canPushTo(newFoodCell)
      THEN {<<"removeCat", currentCell>>,
            <<"addCat", IF moveToCell = FULL_BOWL THEN BOWL ELSE EMPTY>>}
      ELSE {}
    ELSE {})

\* Arrays in memory.  A LevelGrid is an array of row arrays: mem is the
\* sequence of the row arrays that exist, an address is an index into mem, and
\* a grid is the sequence of the addresses of its rows.
deref(mem, rows) == [r \in 1..Len(rows) |-> mem[rows[r]]]

\* (mutant) [...grid]: a new outer array over the same row arrays
copyGridRows_sameRows(mem, rows) == rows

\* grid.map((row) => [...row]): a new array for every row, put after the
\* arrays that exist.
copyGridRows(mem, rows) == [r \in 1..Len(rows) |-> Len(mem) + r]

\* moveCat on arrays in memory: newGrid = copyGrid(grid), and every assignment
\* newGrid[y][x] = cell writes into the row array that newGrid[y] is.  What
\* is returned is newGrid; mem is the memory after the call.
moveCatInMemory(mem, rows, y, x) ==
  const(copyGridRows(mem, rows), LAMBDA newRows :
  const([a \in 1..(Len(mem) + Len(rows)) |->
           IF a <= Len(mem) THEN mem[a] ELSE mem[rows[a - Len(mem)]]], LAMBDA allocated :
  const(moveCat(deref(mem, rows), y, x), LAMBDA written :
    LET isNew(a) == \E r \in 1..Len(newRows) : newRows[r] = a
        rowOf(a) == CHOOSE r \in 1..Len(newRows) : newRows[r] = a
    IN IF written = ThrownGrid
       THEN [rows |-> ThrownGrid, mem |-> allocated]
       ELSE [rows |-> newRows,
             mem |-> [a \in 1..Len(allocated) |->
                        IF isNew(a) THEN written[rowOf(a)] ELSE allocated[a]]])))

\* -------------------------------------------------------------- progress.ts
\* "The number of moves beyond the minimum at which we're no longer good."
GREAT_THRESHOLD == 8

\* (mutant) no test for null: null + moves is moves in JavaScript
computeProgress_nullAsZero(minMoves, moves, minMovesRemaining) ==
  LET bestTotalMoves == moves + (IF minMovesRemaining = null THEN 0 ELSE minMovesRemaining)
  IN IF bestTotalMoves = minMoves THEN "perfect"
     ELSE IF bestTotalMoves <= minMoves + GREAT_THRESHOLD THEN "great"
     ELSE "okay"

\* (mutant) < in place of <=
computeProgress_strict(minMoves, moves, minMovesRemaining) ==
  IF minMovesRemaining = null THEN "doom"
  ELSE LET bestTotalMoves == moves + minMovesRemaining
       IN IF bestTotalMoves = minMoves THEN "perfect"
          ELSE IF bestTotalMoves < minMoves + GREAT_THRESHOLD THEN "great"
          ELSE "okay"

\* (mutant) moves is left out of the sum
computeProgress_noMoves(minMoves, moves, minMovesRemaining) ==
  IF minMovesRemaining = null THEN "doom"
  ELSE LET bestTotalMoves == minMovesRemaining
       IN IF bestTotalMoves = minMoves THEN "perfect"
          ELSE IF bestTotalMoves <= minMoves + GREAT_THRESHOLD THEN "great"
          ELSE "okay"

computeProgress(minMoves, moves, minMovesRemaining) ==
  IF minMovesRemaining = null THEN "doom"
  ELSE LET bestTotalMoves == moves + minMovesRemaining
       IN IF bestTotalMoves = minMoves THEN "perfect"
          ELSE IF bestTotalMoves <= minMoves + GREAT_THRESHOLD THEN "great"
          ELSE "okay"

\* (mutant) <= in place of ===: fewer moves than the minimum pass for perfect
computeProgressUtils_atMost(minMoves, moves, minMovesRemaining) ==
  IF minMovesRemaining = null THEN "doom"
  ELSE LET bestTotalMoves == moves + minMovesRemaining
       IN IF bestTotalMoves <= minMoves THEN "perfect" ELSE "good"

\* utils.ts: the computeProgress with three labels.
computeProgressUtils(minMoves, moves, minMovesRemaining) ==
  IF minMovesRemaining = null THEN "doom"
  ELSE LET bestTotalMoves == moves + minMovesRemaining
       IN IF bestTotalMoves = minMoves THEN "perfect" ELSE "good"

\* ------------------------------------------------------------------ app.tsx
Keys == {"ArrowUp", "ArrowDown", "ArrowLeft", "ArrowRight"}

\* (mutant) [dx, dy] pairs handed to moveCat(grid, y, x)
DIRECTIONS_xy(key) ==
  CASE key = "ArrowUp" -> <<0, -1>>
    [] key = "ArrowDown" -> <<0, 1>>
    [] key = "ArrowLeft" -> <<-1, 0>>
    [] key = "ArrowRight" -> <<1, 0>>

\* key -> [dy, dx]
DIRECTIONS(key) ==
  CASE key = "ArrowUp" -> <<-1, 0>>
    [] key = "ArrowDown" -> <<1, 0>>
    [] key = "ArrowLeft" -> <<0, -1>>
    [] key = "ArrowRight" -> <<0, 1>>

\* (mutant) every key press counts as a move
gridChanged_always(newGrid, grid) == TRUE

\* const gridChanged = makeGridString(newGrid) !== makeGridString(grid)
gridChanged(newGrid, grid) == makeGridString(newGrid) # makeGridString(grid)

\* ---------------------------------------------------------------- solver.ts
\* (mutant) queue.pop() in place of queue.shift(): a stack, not a queue
shift_pop(queue) ==
  [entry |-> queue[Len(queue)], rest |-> SubSeq(queue, 1, Len(queue) - 1)]

\* (mutant) queue[0] in place of queue.shift(): the head is never removed
shift_peek(queue) == [entry |-> Head(queue), rest |-> queue]

\* queue.shift(): the entry taken and the queue that is left.
shift(queue) == [entry |-> Head(queue), rest |-> Tail(queue)]

\* (mutant) the second direction repeated: the cat never tries to go up
neighbors_noUp(currentGrid) ==
  << moveCat(currentGrid, 1, 0),
     moveCat(currentGrid, 1, 0),
     moveCat(currentGrid, 0, -1),
     moveCat(currentGrid, 0, 1) >>

\* (mutant) the third direction repeated: the cat never tries to go right
neighbors_noRight(currentGrid) ==
  << moveCat(currentGrid, -1, 0),
     moveCat(currentGrid, 1, 0),
     moveCat(currentGrid, 0, -1),
     moveCat(currentGrid, 0, -1) >>

\* The four neighbours, in the order solve builds them.
neighbors(currentGrid) ==
  << moveCat(currentGrid, -1, 0),
     moveCat(currentGrid, 1, 0),
     moveCat(currentGrid, 0, -1),
     moveCat(currentGrid, 0, 1) >>

\* (mutant) visited.add is forgotten
visitNeighbor_noAdd(sv, neighbor, currentMoves) ==
  LET neighborStr == makeGridString(neighbor)
  IN IF neighborStr \notin sv.visited
     THEN [visited |-> sv.visited,
           queue |-> Append(sv.queue, <<neighbor, currentMoves + 1>>)]
     ELSE sv

\* (mutant) queue.unshift in place of queue.push
visitNeighbor_unshift(sv, neighbor, currentMoves) ==
  LET neighborStr == makeGridString(neighbor)
  IN IF neighborStr \notin sv.visited
     THEN [visited |-> sv.visited \cup {neighborStr},
           queue |-> << <<neighbor, currentMoves + 1>> >> \o sv.queue]
     ELSE sv

\* (mutant) the move count grows by two for each move
visitNeighbor_plusTwo(sv, neighbor, currentMoves) ==
  LET neighborStr == makeGridString(neighbor)
  IN IF neighborStr \notin sv.visited
     THEN [visited |-> sv.visited \cup {neighborStr},
           queue |-> Append(sv.queue, <<neighbor, currentMoves + 2>>)]
     ELSE sv

\* if (!visited.has(neighborStr)) { visited.add(...); queue.push(...) }
visitNeighbor(sv, neighbor, currentMoves) ==
  LET neighborStr == makeGridString(neighbor)
  IN IF neighborStr \notin sv.visited
     THEN [visited |-> sv.visited \cup {neighborStr},
           queue |-> Append(sv.queue, <<neighbor, currentMoves + 1>>)]
     ELSE sv

\* for (const neighbor of neighbors) ..., from the i-th neighbour on
RECURSIVE visitNeighbors(_, _, _, _)
visitNeighbors(sv, ns, i, currentMoves) ==
  IF i > Len(ns) THEN sv
  ELSE const(visitNeighbor(sv, ns[i], currentMoves),
             LAMBDA sv2 : visitNeighbors(sv2, ns, i + 1, currentMoves))

\* (mutant) return currentMoves + 1: the grid taken is counted as a move
loopBody_plusOne(visited, queue) ==
  const(shift(queue), LAMBDA shifted :
    LET currentGrid == shifted.entry[1]
        currentMoves == shifted.entry[2]
    IN IF getEmptyBowlCount(currentGrid) = 0
       THEN [visited |-> visited, queue |-> shifted.rest,
             result |-> currentMoves + 1, returned |-> TRUE]
       ELSE const(neighbors(currentGrid), LAMBDA ns :
              IF \E i \in 1..Len(ns) : ns[i] = ThrownGrid
              THEN [visited |-> visited, queue |-> shifted.rest,
                    result |-> raised, returned |-> TRUE]
              ELSE
              const(visitNeighbors([visited |-> visited, queue |-> shifted.rest],
                                   ns, 1, currentMoves), LAMBDA sv :
                [visited |-> sv.visited, queue |-> sv.queue,
                 result |-> unset, returned |-> FALSE])))

\* The body of the while loop: take the head; return its move count if it has
\* no empty bowl, else visit its neighbours.  An Error thrown by moveCat is
\* not caught: it ends the call.
loopBody(visited, queue) ==
  const(shift(queue), LAMBDA shifted :
    LET currentGrid == shifted.entry[1]
        currentMoves == shifted.entry[2]
    IN IF getEmptyBowlCount(currentGrid) = 0
       THEN [visited |-> visited, queue |-> shifted.rest,
             result |-> currentMoves, returned |-> TRUE]
       ELSE const(neighbors(currentGrid), LAMBDA ns :
              IF \E i \in 1..Len(ns) : ns[i] = ThrownGrid
              THEN [visited |-> visited, queue |-> shifted.rest,
                    result |-> raised, returned |-> TRUE]
              ELSE
              const(visitNeighbors([visited |-> visited, queue |-> shifted.rest],
                                   ns, 1, currentMoves), LAMBDA sv :
                [visited |-> sv.visited, queue |-> sv.queue,
                 result |-> unset, returned |-> FALSE])))

\* The while loop run to its end, from the visited set and the queue given.
RECURSIVE solveFrom(_, _)
solveFrom(visited, queue) ==
  IF Len(queue) = 0 THEN null
  ELSE const(loopBody(visited, queue), LAMBDA next :
         IF next.returned THEN next.result
         ELSE solveFrom(next.visited, next.queue))

\* solve(grid), as one call.
solve(grid) == solveFrom({makeGridString(grid)}, << <<grid, 0>> >>)

\* What validate leaves when it throws.
ThrownValidate == "Error"

\* (mutant) if (!solution): a level that needs no move is refused too
validate_falsy(level) ==
  const(solve(makeGridFromLines(level)), LAMBDA solution :
    IF solution = null \/ solution = 0 THEN ThrownValidate ELSE Undefined)

\* validate(level): throws when solve returns null, and returns nothing
\* otherwise.  level stands for level.lines.
validate(level) ==
  const(solve(makeGridFromLines(level)), LAMBDA solution :
    IF solution = null THEN ThrownValidate ELSE Undefined)

\* ------------------------------------------------------------------- state
VARIABLES
  levelIndex,   \* App: the level being played (index into LEVELS)
  minMoves,     \* App: solve(level grid), passed to Game as a prop
  grid,         \* Game: useState grid
  moves,        \* Game: useState moves
  resetCount,   \* Game: useState resetCount
  minMovesNow,  \* Game: solve(grid) of the last render
  lastMove,     \* the last call move(y, x) made to moveCat: key, input, output
  pc,           \* where the program is
  caller,       \* who called solve: "App" or "Game"
  solveGrid,    \* solve: the grid parameter
  visited,      \* solve: visited
  queue,        \* solve: queue
  result,       \* solve: the value returned
  earlier,      \* one earlier call of solve: the key of its grid and its result
  call          \* a function called on its own: its name, arguments and result

gameVars == <<levelIndex, minMoves, grid, moves, resetCount, minMovesNow, lastMove>>
solveVars == <<caller, solveGrid, visited, queue, result>>
vars == <<levelIndex, minMoves, grid, moves, resetCount, minMovesNow, lastMove,
          pc, caller, solveGrid, visited, queue, result, earlier, call>>

\* No call remembered, no function called on its own.
noCall == [fn |-> "none"]

\* Earlier calls are not remembered at all.
notKept == [fn |-> "not kept"]

levelGrid == makeGridFromLines(LEVELS[levelIndex])

Start(remembered) ==
  /\ levelIndex \in 1..Len(LEVELS)
  /\ minMoves = unset
  /\ grid = makeGridFromLines(LEVELS[levelIndex])
  /\ moves = 0
  /\ resetCount = 0
  /\ minMovesNow = unset
  /\ lastMove = [key |-> "none", grid |-> <<>>, newGrid |-> <<>>]
  /\ pc = "App"
  /\ caller = "none"
  /\ solveGrid = <<>>
  /\ visited = {}
  /\ queue = <<>>
  /\ result = unset
  /\ earlier = remembered
  /\ call = noCall

Init == Start(notKept)

\* (mutant) visited is created once and shared by every call
SolveCall_shared(g, who) ==
  /\ caller' = who
  /\ solveGrid' = g
  /\ visited' = visited \cup {makeGridString(g)}
  /\ queue' = << <<g, 0>> >>
  /\ result' = unset
  /\ pc' = "solve"

\* (mutant) the start grid is enqueued with one move
SolveCall_fromOne(g, who) ==
  /\ caller' = who
  /\ solveGrid' = g
  /\ visited' = {makeGridString(g)}
  /\ queue' = << <<g, 1>> >>
  /\ result' = unset
  /\ pc' = "solve"

\* solve(grid): the two initialisations before the loop.
SolveCall(g, who) ==
  /\ caller' = who
  /\ solveGrid' = g
  /\ visited' = {makeGridString(g)}
  /\ queue' = << <<g, 0>> >>
  /\ result' = unset
  /\ pc' = "solve"

\* App renders: const minMoves = solve(grid)
AppRender ==
  /\ pc = "App"
  /\ SolveCall(levelGrid, "App")
  /\ UNCHANGED <<gameVars, earlier, call>>

\* One iteration of the while loop.
SolveLoop ==
  /\ pc = "solve"
  /\ Len(queue) > 0
  /\ \E next \in {loopBody(visited, queue)} :
        /\ visited' = next.visited
        /\ queue' = next.queue
        /\ result' = next.result
        /\ pc' = IF next.result = raised THEN "raised"
                 ELSE IF next.returned THEN "return" ELSE "solve"
  /\ UNCHANGED <<gameVars, caller, solveGrid, earlier, call>>

\* (mutant) return 0 after the loop
SolveExhausted_zero ==
  /\ pc = "solve"
  /\ Len(queue) = 0
  /\ result' = 0
  /\ pc' = "return"
  /\ UNCHANGED <<gameVars, caller, solveGrid, visited, queue, earlier, call>>

\* The queue is empty: return null.
SolveExhausted ==
  /\ pc = "solve"
  /\ Len(queue) = 0
  /\ result' = null
  /\ pc' = "return"
  /\ UNCHANGED <<gameVars, caller, solveGrid, visited, queue, earlier, call>>

\* The call of solve that returns now is remembered, or the one remembered
\* before is kept: any earlier call can be the one a later call is compared
\* with.
Remember ==
  earlier' \in
    IF earlier = notKept THEN {earlier}
    ELSE {earlier, [fn |-> "solve", key |-> makeGridString(solveGrid), result |-> result]}

\* App after solve: the "Unsolvable level!" page, or the Game.
AppReturn ==
  /\ pc = "return"
  /\ caller = "App"
  /\ Remember
  /\ minMoves' = result
  /\ pc' = IF result = null THEN "unsolvable" ELSE "mount"
  /\ UNCHANGED <<levelIndex, grid, moves, resetCount, minMovesNow, lastMove, solveVars, call>>

\* Game renders: const minMovesNow = solve(grid)
GameRender ==
  /\ pc \in {"mount", "render"}
  /\ SolveCall(grid, "Game")
  /\ UNCHANGED <<gameVars, earlier, call>>

\* Game after solve; the first render is followed by the mount effect.
GameReturn ==
  /\ pc = "return"
  /\ caller = "Game"
  /\ Remember
  /\ minMovesNow' = result
  /\ pc' = IF resetCount = 0 THEN "effect" ELSE "idle"
  /\ UNCHANGED <<levelIndex, minMoves, grid, moves, resetCount, lastMove, solveVars, call>>

\* (mutant) setGrid is forgotten: the counter starts again on the grid as it is
reset_keepGrid ==
  /\ moves' = 0
  /\ resetCount' = resetCount + 1
  /\ pc' = "render"
  /\ UNCHANGED <<levelIndex, minMoves, grid, minMovesNow, lastMove, solveVars, earlier, call>>

\* (mutant) setMoves(0) is forgotten: the level starts again with the old count
reset_keepMoves ==
  /\ grid' = makeGridFromLines(LEVELS[levelIndex])
  /\ resetCount' = resetCount + 1
  /\ pc' = "render"
  /\ UNCHANGED <<levelIndex, minMoves, moves, minMovesNow, lastMove, solveVars, earlier, call>>

\* reset(level)
reset ==
  /\ grid' = makeGridFromLines(LEVELS[levelIndex])
  /\ moves' = 0
  /\ resetCount' = resetCount + 1
  /\ pc' = "render"
  /\ UNCHANGED <<levelIndex, minMoves, minMovesNow, lastMove, solveVars, earlier, call>>

\* useEffect(() => reset(level), [level])
MountEffect ==
  /\ pc = "effect"
  /\ reset

won == getEmptyBowlCount(grid) = 0

\* hints={forceHints || levelIndex < 9}, without ?hints in the URL; the
\* Game's showHints starts as hints and is never set to false.
showHints == levelIndex - 1 < 9

\* const progress = showHints ? computeProgress(minMoves, moves, minMovesNow) : null
progress ==
  IF showHints THEN computeProgress(minMoves, moves, minMovesNow) ELSE "null"

\* The "I'm stuck" link: shown when the level is not won and moves > 0.
Stuck ==
  /\ pc = "idle"
  /\ ~won
  /\ moves > 0
  /\ resetCount < MaxResets   \* bound
  /\ reset

\* move(y, x), from an arrow key or an on-screen arrow.  An Error thrown by
\* moveCat leaves the handler before anything is set.
Move(key) ==
  /\ pc = "idle"
  /\ moves < MaxMoves   \* bound
  /\ LET y == DIRECTIONS(key)[1]
         x == DIRECTIONS(key)[2]
         newGrid == moveCat(grid, y, x)
     IN /\ lastMove' = [key |-> key, grid |-> grid, newGrid |-> newGrid]
        /\ IF newGrid # ThrownGrid /\ gridChanged(newGrid, grid)
           THEN /\ grid' = newGrid
                /\ moves' = moves + 1
                /\ pc' = "render"
           ELSE UNCHANGED <<grid, moves, pc>>
  /\ UNCHANGED <<levelIndex, minMoves, resetCount, minMovesNow, solveVars, earlier, call>>

Next ==
  \/ AppRender
  \/ SolveLoop
  \/ SolveExhausted
  \/ AppReturn
  \/ GameRender
  \/ GameReturn
  \/ MountEffect
  \/ Stuck
  \/ \E key \in Keys : Move(key)

Spec == Init /\ [][Next]_vars

\* solve runs to completion on the calling thread: its loop is never
\* abandoned half way.
LiveSpec == Spec /\ WF_vars(SolveLoop) /\ WF_vars(SolveExhausted)

\* The same program on the levels with one food, with one earlier call of
\* solve remembered.
TwoCallInit == Start(noCall) /\ LEVELS[levelIndex] # LevelTwo

TwoCallSpec == TwoCallInit /\ [][Next]_vars

\* --------------------------------------------------------------- reference
\* The move graph, defined from moveCat alone and without a queue: what the
\* claims about solve are measured against.

Dirs == {<<-1, 0>>, <<1, 0>>, <<0, -1>>, <<0, 1>>}

\* The grids one state-changing move away.
Succ(g) == {moveCat(g, d[1], d[2]) : d \in Dirs} \ {g}

\* The grids that sequences of exactly k state-changing moves reach.
RECURSIVE Exact(_, _)
Exact(g, k) == IF k = 0 THEN {g} ELSE UNION {Succ(s) : s \in Exact(g, k - 1)}

\* The grids that any sequence of moves reaches.
RECURSIVE Closure(_, _)
Closure(seen, frontier) ==
  LET new == UNION {Succ(s) : s \in frontier} \ seen
  IN IF new = {} THEN seen ELSE Closure(seen \cup new, new)

Reachable(g) == Closure({g}, {g})

Won(g) == \A p \in Positions(g) : g[p[1]][p[2]] \notin {BOWL, CAT_BOWL}

CatCells(g) == {p \in Positions(g) : g[p[1]][p[2]] \in {CAT, CAT_BOWL}}
FoodCells(g) == {p \in Positions(g) : g[p[1]][p[2]] \in {FOOD, FULL_BOWL}}

\* Every grid the program holds: the Game's, solve's parameter and queue.
QueueGrids == {queue[i][1] : i \in 1..Len(queue)}
HeldGrids == {grid} \cup QueueGrids \cup (IF pc \in {"solve", "return"} THEN {solveGrid} ELSE {})

\* ----------------------------------------------- functions called on their own
\* The rectangular grids of at most MaxKeyCells cells.  join treats every
\* cell alike, as a string of one character that is not the separator, so
\* four of the seven cells are drawn.
KeyCells == {WALL, CAT, FOOD, EMPTY}

KeyShapes ==
  {hw \in (1..MaxKeyCells) \X (1..MaxKeyCells) : hw[1] * hw[2] <= MaxKeyCells}

KeyGrids == UNION {[1..hw[1] -> [1..hw[2] -> KeyCells]] : hw \in KeyShapes}

Counts == 0..MaxCount

\* A grid with the cat taken off it.
withoutCat(g) ==
  [r \in 1..Len(g) |-> [c \in 1..Len(g[r]) |->
     IF g[r][c] = CAT THEN EMPTY ELSE IF g[r][c] = CAT_BOWL THEN BOWL ELSE g[r][c]]]

\* The cat, the cell next to it and the cell behind that one, as a row and as
\* a column, in both orders: every case of one move along a line.
LineGrids ==
  UNION {{ << <<c, a, l>> >>, << <<l, a, c>> >>,
           << <<c>>, <<a>>, <<l>> >>, << <<l>>, <<a>>, <<c>> >> } :
         c \in {CAT, CAT_BOWL},
         a \in Cell \ {CAT, CAT_BOWL},
         l \in Cell \ {CAT, CAT_BOWL}}

\* The grids handed to getCatLocation and moveCat on their own: the small
\* grids, the lines, the levels, and the levels without their cat.
CatGrids ==
  KeyGrids
  \cup LineGrids
  \cup {makeGridFromLines(LEVELS[i]) : i \in 1..Len(LEVELS)}
  \cup {withoutCat(makeGridFromLines(LEVELS[i])) : i \in 1..Len(LEVELS)}

\* A level that is won before the first move.
LevelWon ==
  << <<"#", "#", "#", "#", "#">>,
     <<"#", "*", "@", " ", "#">>,
     <<"#", "#", "#", "#", "#">> >>

\* The levels handed to validate.
ValidateLevels == {LEVELS[i] : i \in 1..Len(LEVELS)} \cup {LevelWon}

\* A level without a bowl.
LevelBare ==
  << <<"#", "#", "#", "#", "#">>,
     <<"#", "@", "$", " ", "#">>,
     <<"#", "#", "#", "#", "#">> >>

\* One food for two bowls.
LevelShort ==
  << <<"#", "#", "#", "#", "#">>,
     <<"#", "@", "$", ".", "#">>,
     <<"#", " ", ".", " ", "#">>,
     <<"#", "#", "#", "#", "#">> >>

\* A bowl and no food.
LevelNoFood ==
  << <<"#", "#", "#", "#", "#">>,
     <<"#", "@", " ", ".", "#">>,
     <<"#", "#", "#", "#", "#">> >>

\* The grids handed to solve on its own: every grid that moves reach from a
\* level or from a level with fewer foods than bowls, and the two levels
\* that have nothing to fill.
SolveGrids ==
  UNION {Reachable(makeGridFromLines(LEVELS[i])) : i \in 1..Len(LEVELS)}
  \cup Reachable(makeGridFromLines(LevelShort))
  \cup Reachable(makeGridFromLines(LevelNoFood))
  \cup {makeGridFromLines(LevelWon), makeGridFromLines(LevelBare)}

Calls ==
  {[fn |-> "makeGridString", args |-> <<a, b>>] : a \in KeyGrids, b \in KeyGrids}
  \cup {[fn |-> "getCatLocation", args |-> <<g>>] : g \in CatGrids}
  \cup {[fn |-> "moveCat", args |-> <<g, DIRECTIONS(k)[1], DIRECTIONS(k)[2]>>] :
           g \in CatGrids, k \in Keys}
  \cup {[fn |-> "moveCatBack", args |-> <<g, DIRECTIONS(k)[1], DIRECTIONS(k)[2]>>] :
           g \in CatGrids \cup SolveGrids, k \in Keys}
  \cup {[fn |-> "validate", args |-> <<level>>] : level \in ValidateLevels}
  \cup {[fn |-> "solve", args |-> <<g>>] : g \in SolveGrids}
  \cup {[fn |-> f, args |-> <<cell>>] : f \in {"addCat", "removeCat"}, cell \in Cell}
  \cup {[fn |-> f, args |-> <<m, n, r>>] :
           f \in {"computeProgress", "computeProgressUtils"},
           m \in Counts, n \in Counts, r \in Counts \cup {null}}

\* No App and no Game: one function and its arguments.
PureInit ==
  /\ levelIndex = 1
  /\ minMoves = unset
  /\ grid = <<>>
  /\ moves = 0
  /\ resetCount = 0
  /\ minMovesNow = unset
  /\ lastMove = [key |-> "none", grid |-> <<>>, newGrid |-> <<>>]
  /\ pc = "call"
  /\ caller = "none"
  /\ solveGrid = <<>>
  /\ visited = {}
  /\ queue = <<>>
  /\ result = unset
  /\ earlier = notKept
  /\ call \in Calls

Returns(fn, ret) ==
  /\ pc = "call"
  /\ call.fn = fn
  /\ call' = [fn |-> fn, args |-> call.args, ret |-> ret]
  /\ pc' = "called"
  /\ UNCHANGED <<gameVars, solveVars, earlier>>

\* makeGridString of each of the two grids
CallMakeGridString ==
  Returns("makeGridString", <<makeGridString(call.args[1]), makeGridString(call.args[2])>>)

CallAddCat == Returns("addCat", addCat(call.args[1]))

CallRemoveCat == Returns("removeCat", removeCat(call.args[1]))

CallGetCatLocation == Returns("getCatLocation", getCatLocation(call.args[1]))

CallMoveCat == Returns("moveCat", moveCat(call.args[1], call.args[2], call.args[3]))

\* moveCat, and moveCat the opposite way on the grid it returned
CallMoveCatBack ==
  Returns("moveCatBack",
          const(moveCat(call.args[1], call.args[2], call.args[3]), LAMBDA there :
            IF there = ThrownGrid THEN <<ThrownGrid, ThrownGrid>>
            ELSE <<there, moveCat(there, -call.args[2], -call.args[3])>>))

CallValidate == Returns("validate", validate(call.args[1]))

\* solve(grid) on its own: the call, and the return after the loop.
CallSolve ==
  /\ pc = "call"
  /\ call.fn = "solve"
  /\ SolveCall(call.args[1], "none")
  /\ UNCHANGED <<gameVars, earlier, call>>

SolveReturns ==
  /\ pc = "return"
  /\ caller = "none"
  /\ call' = [fn |-> call.fn, args |-> call.args, ret |-> result]
  /\ pc' = "called"
  /\ UNCHANGED <<gameVars, solveVars, earlier>>

CallComputeProgress ==
  Returns("computeProgress", computeProgress(call.args[1], call.args[2], call.args[3]))

CallComputeProgressUtils ==
  Returns("computeProgressUtils",
          computeProgressUtils(call.args[1], call.args[2], call.args[3]))

PureNext ==
  \/ CallMakeGridString
  \/ CallAddCat
  \/ CallRemoveCat
  \/ CallComputeProgress
  \/ CallComputeProgressUtils
  \/ CallGetCatLocation
  \/ CallMoveCat
  \/ CallMoveCatBack
  \/ CallValidate
  \/ CallSolve
  \/ SolveLoop
  \/ SolveExhausted
  \/ SolveReturns

PureSpec == PureInit /\ [][PureNext]_vars

\* What a function called on its own was given and what it returned.
called(fn) == pc = "called" /\ call.fn = fn

\* ------------------------------------------------------------------ claims

\* C1: BFS optimality.  When solve returns a number m, some sequence of
\* exactly m state-changing moves from solve's grid reaches a grid with no
\* unfilled bowl, and no sequence of fewer than m moves does.
C1_BFSOptimality ==
  (pc = "return" /\ result # null) =>
    /\ \E s \in Exact(solveGrid, result) : Won(s)
    /\ \A k \in 0..(result - 1) : \A s \in Exact(solveGrid, k) : ~Won(s)

C1_Witness == pc = "return" /\ result = 3 /\ caller = "App"

\* C2: solve returns null exactly when no grid without an unfilled bowl is
\* reachable from its grid, and a number whenever one is.
C2_NullIffUnreachable ==
  pc = "return" =>
    /\ (result = null) <=> (\A s \in Reachable(solveGrid) : ~Won(s))
    /\ (result \in Nat) <=> (\E s \in Reachable(solveGrid) : Won(s))

C2_Witness == pc = "return" /\ result = null /\ caller = "Game" /\ moves > 0

\* C3: single agent.  Every grid reached from a valid start has exactly one
\* cell that is CAT or CAT_BOWL.
C3_SingleAgent == \A g \in HeldGrids : Cardinality(CatCells(g)) = 1

C3_Witness ==
  /\ pc = "idle" /\ moves >= 2
  /\ grid[getCatLocation(grid)[1]][getCatLocation(grid)[2]] = CAT_BOWL
  /\ Cardinality(CatCells(grid)) = 1

\* C4: piece count.  Every grid reached from the start has as many FOOD plus
\* FULL_BOWL cells as the start grid.
C4_PieceCount ==
  \A g \in HeldGrids : Cardinality(FoodCells(g)) = Cardinality(FoodCells(levelGrid))

C4_Witness ==
  /\ lastMove.key # "none"
  /\ FoodCells(lastMove.newGrid) # FoodCells(lastMove.grid)
  /\ grid = lastMove.newGrid
  /\ Cardinality(FoodCells(grid)) = 2

\* The last call move(y, x) made to moveCat, read for the claims about one
\* call: its input, the direction it was given, and the cells on the line
\* from the cat.
moveMade == lastMove.key # "none"
inGrid == lastMove.grid
outGrid == lastMove.newGrid
catIn == CHOOSE p \in CatCells(inGrid) : TRUE
dirIn == DIRECTIONS(lastMove.key)
adjPos == <<catIn[1] + dirIn[1], catIn[2] + dirIn[2]>>
landPos == <<catIn[1] + 2 * dirIn[1], catIn[2] + 2 * dirIn[2]>>
catCell == inGrid[catIn[1]][catIn[2]]
adjCell == cellAt(inGrid, adjPos[1], adjPos[2])
landCell == cellAt(inGrid, landPos[1], landPos[2])

SameContent(a, b) ==
  /\ Len(a) = Len(b)
  /\ \A r \in 1..Len(a) :
       /\ Len(a[r]) = Len(b[r])
       /\ \A c \in 1..Len(a[r]) : a[r][c] = b[r][c]

\* C5: a blocked move is a no-op.  When the cell next to the cat is a WALL,
\* or is FOOD or FULL_BOWL with a WALL, FOOD or FULL_BOWL behind it, moveCat
\* returns a grid equal to its input, position for position.
C5_BlockedNoOp ==
  (/\ moveMade
   /\ \/ adjCell = WALL
      \/ adjCell \in {FOOD, FULL_BOWL} /\ landCell \in {WALL, FOOD, FULL_BOWL})
  => SameContent(outGrid, inGrid)

C5_Witness ==
  /\ moveMade
  /\ adjCell = FOOD
  /\ landCell = FULL_BOWL
  /\ SameContent(outGrid, inGrid)

\* C6: push.  When the cell next to the cat is FOOD or FULL_BOWL and the cell
\* behind it is EMPTY or BOWL, the food lands there (EMPTY becomes FOOD, BOWL
\* becomes FULL_BOWL), the cat takes the food's cell and keeps its bowl (FOOD
\* becomes CAT, FULL_BOWL becomes CAT_BOWL), and the cat's old cell keeps its
\* bowl (CAT becomes EMPTY, CAT_BOWL becomes BOWL).
C6_PushSemantics ==
  (moveMade /\ adjCell \in {FOOD, FULL_BOWL} /\ landCell \in {EMPTY, BOWL}) =>
    /\ outGrid[landPos[1]][landPos[2]] = (IF landCell = EMPTY THEN FOOD ELSE FULL_BOWL)
    /\ outGrid[adjPos[1]][adjPos[2]] = (IF adjCell = FOOD THEN CAT ELSE CAT_BOWL)
    /\ outGrid[catIn[1]][catIn[2]] = (IF catCell = CAT THEN EMPTY ELSE BOWL)

C6_Witness ==
  /\ moveMade
  /\ adjCell = FULL_BOWL
  /\ landCell = EMPTY
  /\ outGrid[adjPos[1]][adjPos[2]] = CAT_BOWL
  /\ outGrid[landPos[1]][landPos[2]] = FOOD

\* The direction an arrow stands for: up is one row less, down one row
\* more, left one column less, right one column more.
Arrow(key) ==
  CASE key = "ArrowUp" -> <<-1, 0>>
    [] key = "ArrowDown" -> <<1, 0>>
    [] key = "ArrowLeft" -> <<0, -1>>
    [] key = "ArrowRight" -> <<0, 1>>

arrowPos == <<catIn[1] + Arrow(lastMove.key)[1], catIn[2] + Arrow(lastMove.key)[2]>>
arrowCell == cellAt(inGrid, arrowPos[1], arrowPos[2])

\* C7: plain move.  When the cell next to the cat in the arrow's direction
\* is EMPTY or BOWL, the cat moves exactly one cell that way: its old cell
\* becomes EMPTY (from CAT) or BOWL (from CAT_BOWL) and the new one CAT
\* (from EMPTY) or CAT_BOWL (from BOWL).
C7_PlainMove ==
  (moveMade /\ arrowCell \in {EMPTY, BOWL}) =>
    /\ outGrid[catIn[1]][catIn[2]] = (IF catCell = CAT THEN EMPTY ELSE BOWL)
    /\ outGrid[arrowPos[1]][arrowPos[2]] = (IF arrowCell = EMPTY THEN CAT ELSE CAT_BOWL)
    /\ CatCells(outGrid) = {arrowPos}

C7_Witness ==
  /\ moveMade
  /\ lastMove.key = "ArrowUp"
  /\ catCell = CAT_BOWL
  /\ arrowCell = EMPTY
  /\ outGrid[catIn[1]][catIn[2]] = BOWL
  /\ arrowPos = <<catIn[1] - 1, catIn[2]>>
  /\ outGrid[arrowPos[1]][arrowPos[2]] = CAT

\* C8: one call moves at most one food, and a food with another food right
\* behind it in the push direction is not moved.
C8_OnePiecePerCall ==
  moveMade =>
    /\ Cardinality(FoodCells(inGrid) \ FoodCells(outGrid)) <= 1
    /\ Cardinality(FoodCells(outGrid) \ FoodCells(inGrid)) <= 1
    /\ (adjCell \in {FOOD, FULL_BOWL} /\ landCell \in {FOOD, FULL_BOWL})
         => FoodCells(outGrid) = FoodCells(inGrid)

C8_Witness ==
  /\ moveMade
  /\ Cardinality(FoodCells(inGrid)) >= 2
  /\ adjCell \in {FOOD, FULL_BOWL}
  /\ landCell \in {FOOD, FULL_BOWL}
  /\ FoodCells(outGrid) = FoodCells(inGrid)
  /\ CatCells(outGrid) = {catIn}

\* C9: monotonic consistency.  With m = solve(start), once k <= m
\* state-changing moves along a shortest solution (one that m - k further
\* moves complete) have led to the Game's grid, solve of that grid is m - k.
C9_MonotonicConsistency ==
  (/\ pc = "idle"
   /\ minMoves \in Nat
   /\ moves <= minMoves
   /\ \E s \in Exact(grid, minMoves - moves) : Won(s))
  => minMovesNow = minMoves - moves

C9_Witness ==
  /\ pc = "idle"
  /\ minMoves = 3
  /\ moves = 2
  /\ \E s \in Exact(grid, 1) : Won(s)
  /\ minMovesNow = 1

\* C10: solve terminates.  Every call leaves the loop: the queue empties and
\* null is returned, or a grid without an unfilled bowl is taken from the
\* queue and its move count is returned.
C10_SolveTerminates ==
  (pc = "solve") ~>
    (pc = "return" /\ (result \in Nat \/ (result = null /\ queue = <<>>)))

C10_Witness == pc = "return" /\ result = null /\ queue = <<>> /\ Cardinality(visited) > 12

\* C11: determinism.  A call of solve returns what any earlier call on a grid
\* of the same content returned, whatever was solved in between.
C11_Determinism ==
  (pc = "return" /\ earlier.fn = "solve" /\ earlier.key = makeGridString(solveGrid))
    => result = earlier.result

C11_Witness ==
  /\ pc = "return"
  /\ caller = "Game"
  /\ moves > 0
  /\ earlier.fn = "solve"
  /\ earlier.key = makeGridString(solveGrid)
  /\ grid # levelGrid
  /\ result = earlier.result
  /\ result \in Nat

\* A valid start grid: a rectangle with one cat and WALL on every border cell.
Border(g) ==
  {p \in Positions(g) : p[1] \in {1, Len(g)} \/ p[2] \in {1, Len(g[1])}}

ValidStart(g) ==
  /\ Len(g) > 0
  /\ \A r \in 1..Len(g) : Len(g[r]) = Len(g[1])
  /\ Cardinality(CatCells(g)) = 1
  /\ \A p \in Border(g) : g[p[1]][p[2]] = WALL

\* C12: a call of solve on a valid start grid never ends with an Error, and
\* what it returns is a natural number or null.
C12_SolveReturnsValue ==
  (pc \in {"solve", "return", "raised"} /\ ValidStart(solveGrid)) =>
    /\ pc # "raised"
    /\ pc = "return" => (result \in Nat \/ result = null)

C12_Witness ==
  /\ pc = "return"
  /\ caller = "App"
  /\ ValidStart(solveGrid)
  /\ solveGrid = levelGrid
  /\ result = null

\* C13: on every grid the program holds, moveCat in each of the four
\* directions finds the cat, reads the cell next to it inside the grid, reads
\* the cell two steps away inside the grid whenever it reads it (the cell
\* next to the cat is FOOD or FULL_BOWL), and returns a grid, not an Error.
C13_MoveCatInBounds ==
  \A g \in HeldGrids : \A d \in Dirs :
    LET loc == getCatLocation(g)
        moveTo == moveToIndex(loc[1], loc[2], d[1], d[2])
        newFood == newFoodIndex(moveTo[1], moveTo[2], d[1], d[2])
    IN /\ loc # ThrownLocation
       /\ moveTo \in Positions(g)
       /\ isFood(g[moveTo[1]][moveTo[2]]) => newFood \in Positions(g)
       /\ moveCat(g, d[1], d[2]) # ThrownGrid

C13_Witness ==
  /\ moveMade
  /\ isFood(adjCell)
  /\ landPos \in Border(inGrid)
  /\ landPos = newFoodIndex(adjPos[1], adjPos[2], dirIn[1], dirIn[2])
  /\ landCell = WALL
  /\ outGrid # ThrownGrid

\* The input of the last call of moveCat as the caller holds it in memory,
\* and the memory after the call.
inRows == [r \in 1..Len(inGrid) |-> r]
afterMove == moveCatInMemory(inGrid, inRows, dirIn[1], dirIn[2])

\* C14: moveCat does not mutate its input and returns an independent grid.
\* After the call the input grid reads as before and shares no row array
\* with the grid returned; and after a further move in any direction applied
\* to the grid returned, both the input and the grid returned read as before.
C14_NoMutation ==
  moveMade =>
    const(afterMove, LAMBDA after :
      /\ deref(after.mem, inRows) = inGrid
      /\ deref(after.mem, after.rows) = outGrid
      /\ {after.rows[r] : r \in 1..Len(after.rows)}
           \cap {inRows[r] : r \in 1..Len(inRows)} = {}
      /\ \A d \in Dirs :
           const(moveCatInMemory(after.mem, after.rows, d[1], d[2]), LAMBDA later :
             /\ deref(later.mem, inRows) = inGrid
             /\ deref(later.mem, after.rows) = outGrid))

C14_Witness ==
  /\ moveMade
  /\ outGrid # inGrid
  /\ const(afterMove, LAMBDA after :
       /\ deref(after.mem, inRows) = inGrid
       /\ deref(after.mem, after.rows) = outGrid
       /\ \E d \in Dirs :
            const(moveCatInMemory(after.mem, after.rows, d[1], d[2]), LAMBDA later :
              /\ deref(later.mem, later.rows) # outGrid
              /\ deref(later.mem, inRows) = inGrid))

\* C15: the key is canonical.  makeGridString gives two grids the same string
\* exactly when they have the same cell at every position.
C15_CanonicalKey ==
  called("makeGridString") =>
    ((call.ret[1] = call.ret[2]) <=> SameContent(call.args[1], call.args[2]))

C15_Witness ==
  /\ called("makeGridString")
  /\ Len(call.args[1]) = 2
  /\ Len(call.args[2]) = 1
  /\ call.args[1][1] \o call.args[1][2] = call.args[2][1]
  /\ call.ret[1] # call.ret[2]

\* C16: addCat returns CAT_BOWL for BOWL and CAT for EMPTY and throws for
\* each of the five other cells; removeCat returns EMPTY for CAT and BOWL for
\* CAT_BOWL and throws for each of the five other cells.
C16_AddRemoveCat ==
  /\ called("addCat") =>
       /\ call.args[1] = BOWL => call.ret = CAT_BOWL
       /\ call.args[1] = EMPTY => call.ret = CAT
       /\ call.args[1] \in {WALL, CAT, CAT_BOWL, FOOD, FULL_BOWL} => call.ret = ThrownCell
  /\ called("removeCat") =>
       /\ call.args[1] = CAT => call.ret = EMPTY
       /\ call.args[1] = CAT_BOWL => call.ret = BOWL
       /\ call.args[1] \in {WALL, FOOD, FULL_BOWL, BOWL, EMPTY} => call.ret = ThrownCell

C16_Witness ==
  /\ called("addCat")
  /\ call.args[1] = FULL_BOWL
  /\ call.ret = ThrownCell

\* C17: the Errors of addCat and removeCat are out of moveCat's reach.  On
\* every grid the program holds and in each direction, moveCat calls
\* removeCat on CAT or CAT_BOWL only and addCat on EMPTY or BOWL only, so
\* neither call throws.
C17_CatCallsInDomain ==
  \A g \in HeldGrids : \A d \in Dirs : \A c \in catCalls(g, d[1], d[2]) :
    /\ c[1] = "removeCat" => (c[2] \in {CAT, CAT_BOWL} /\ removeCat(c[2]) # ThrownCell)
    /\ c[1] = "addCat" => (c[2] \in {EMPTY, BOWL} /\ addCat(c[2]) # ThrownCell)

C17_Witness ==
  /\ moveMade
  /\ catCalls(inGrid, dirIn[1], dirIn[2]) = {<<"removeCat", CAT>>, <<"addCat", BOWL>>}
  /\ outGrid[catIn[1]][catIn[2]] = EMPTY
  /\ outGrid[adjPos[1]][adjPos[2]] = CAT_BOWL

\* C18: the Game accepts a move exactly when moveCat returned a grid whose
\* content differs from the current grid.  In a step that calls move (a step
\* of the idle Game that is not a reset), when the grid moveCat returned
\* differs, it becomes the grid and moves grows by exactly one; when it does
\* not differ, grid and moves stay as they are.
C18_MoveAccepted ==
  [][(pc = "idle" /\ resetCount' = resetCount) =>
       /\ lastMove'.grid = grid
       /\ IF ~SameContent(lastMove'.newGrid, grid)
          THEN grid' = lastMove'.newGrid /\ moves' = moves + 1
          ELSE grid' = grid /\ moves' = moves]_vars

C18_Witness ==
  /\ pc = "idle"
  /\ moveMade
  /\ adjCell = WALL
  /\ SameContent(outGrid, inGrid)
  /\ grid = inGrid
  /\ moves = 1

\* C19: computeProgress returns "doom" exactly when minMovesRemaining is
\* null, "perfect" exactly when it is a number and moves + minMovesRemaining
\* is minMoves, and a label for solvable but not optimal in every other case
\* ("great" or "okay" in progress.ts, "good" in utils.ts): one of three
\* outcomes for every input, never two.
C19_ProgressCases ==
  /\ called("computeProgress") =>
       /\ call.ret \in {"doom", "perfect", "great", "okay"}
       /\ (call.ret = "doom") <=> (call.args[3] = null)
       /\ (call.ret = "perfect") <=>
            (call.args[3] # null /\ call.args[2] + call.args[3] = call.args[1])
       /\ (call.ret \in {"great", "okay"}) <=>
            (call.args[3] # null /\ call.args[2] + call.args[3] # call.args[1])
  /\ called("computeProgressUtils") =>
       /\ call.ret \in {"doom", "perfect", "good"}
       /\ (call.ret = "doom") <=> (call.args[3] = null)
       /\ (call.ret = "perfect") <=>
            (call.args[3] # null /\ call.args[2] + call.args[3] = call.args[1])
       /\ (call.ret = "good") <=>
            (call.args[3] # null /\ call.args[2] + call.args[3] # call.args[1])

C19_Witness ==
  /\ called("computeProgress")
  /\ call.args[3] = null
  /\ call.args[1] = call.args[2]
  /\ call.args[1] > 0
  /\ call.ret = "doom"

C21_DoomIrrecoverable ==
  /\ []((pc = "return" /\ result = null) =>
          \A s \in Reachable(solveGrid) : solve(s) = null)
  /\ [][(minMovesNow = null /\ moves > 0 /\ resetCount' = resetCount) =>
          (minMovesNow' = null /\ progress' = "doom")]_vars

C21_Witness ==
  /\ pc = "idle"
  /\ moveMade
  /\ grid = outGrid
  /\ ~SameContent(outGrid, inGrid)
  /\ solve(inGrid) = null
  /\ minMovesNow = null
  /\ progress = "doom"

\* The target positions of a grid: the cells with a bowl, empty, full or
\* under the cat.
Targets(g) == {p \in Positions(g) : g[p[1]][p[2]] \in {BOWL, CAT_BOWL, FULL_BOWL}}

\* C22: on every grid the program holds, getEmptyBowlCount is the number of
\* cells that are "." or "+", and it is 0 exactly when every target position
\* of the level holds FULL_BOWL.
C22_EmptyBowlCount ==
  \A g \in HeldGrids :
    /\ getEmptyBowlCount(g) = Cardinality({p \in Positions(g) : g[p[1]][p[2]] \in {".", "+"}})
    /\ (getEmptyBowlCount(g) = 0) <=>
         (\A p \in Targets(levelGrid) : g[p[1]][p[2]] = FULL_BOWL)

C22_Witness ==
  /\ pc = "idle"
  /\ moves > 0
  /\ Cardinality(Targets(levelGrid)) = 2
  /\ getEmptyBowlCount(levelGrid) = 2
  /\ getEmptyBowlCount(grid) = 0
  /\ \A p \in Targets(levelGrid) : grid[p[1]][p[2]] = FULL_BOWL

ScenarioA ==
  << <<"#", "#", "#", "#", "#">>,
     <<"#", ".", "$", "@", "#">>,
     <<"#", "#", "#", "#", "#">> >>

\* C23: scenario A.  On the level "#####", "#.$@#", "#####", solve returns 1,
\* and moveCat to the left returns a grid whose middle row is "#*@ #":
\* FULL_BOWL, CAT, EMPTY in columns 1, 2, 3 (counted from 0), with no empty
\* bowl.
C23_ScenarioA ==
  levelGrid = ScenarioA =>
    /\ solve(ScenarioA) = 1
    /\ (pc = "return" /\ solveGrid = ScenarioA) => result = 1
    /\ minMoves \in {unset, 1}
    /\ moveCat(ScenarioA, 0, -1)[2] = <<"#", "*", "@", " ", "#">>
    /\ getEmptyBowlCount(moveCat(ScenarioA, 0, -1)) = 0
    /\ (moveMade /\ inGrid = ScenarioA /\ lastMove.key = "ArrowLeft") =>
         /\ outGrid[2] = <<"#", "*", "@", " ", "#">>
         /\ getEmptyBowlCount(outGrid) = 0

C23_Witness ==
  /\ levelGrid = ScenarioA
  /\ minMoves = 1
  /\ moveMade
  /\ inGrid = ScenarioA
  /\ lastMove.key = "ArrowLeft"
  /\ grid = outGrid
  /\ grid[2] = <<"#", "*", "@", " ", "#">>
  /\ pc = "idle"
  /\ won

ScenarioB ==
  << <<"#", "#", "#", "#", "#">>,
     <<"#", ".", "@", "$", "#">>,
     <<"#", "#", "#", "#", "#">> >>

\* C24: scenario B.  On the level "#####", "#.@$#", "#####", the food is
\* where it started in every grid that moves reach and in every grid the
\* program holds, and solve returns null.
C24_ScenarioB ==
  levelGrid = ScenarioB =>
    /\ \A s \in Reachable(ScenarioB) : FoodCells(s) = FoodCells(ScenarioB)
    /\ \A g \in HeldGrids : FoodCells(g) = FoodCells(ScenarioB)
    /\ solve(ScenarioB) = null
    /\ (pc = "return" /\ solveGrid = ScenarioB) => result = null
    /\ minMoves \in {unset, null}

C24_Witness ==
  /\ levelGrid = ScenarioB
  /\ pc = "unsolvable"
  /\ minMoves = null
  /\ visited = {makeGridString(s) : s \in Reachable(ScenarioB)}
  /\ Cardinality(visited) = 2

\* C25: getCatLocation returns the row and column of the one cell that is
\* CAT or CAT_BOWL, and throws when the grid has no such cell; moveCat on a
\* grid with no such cell throws and returns no grid.
C25_CatLocation ==
  /\ called("getCatLocation") =>
       /\ Cardinality(CatCells(call.args[1])) = 1 => CatCells(call.args[1]) = {call.ret}
       /\ CatCells(call.args[1]) = {} => call.ret = ThrownLocation
  /\ (called("moveCat") /\ CatCells(call.args[1]) = {}) => call.ret = ThrownGrid

C25_Witness ==
  /\ called("moveCat")
  /\ call.args[1] = withoutCat(LevelRoom)
  /\ CatCells(call.args[1]) = {}
  /\ call.ret = ThrownGrid

Ordered(q) ==
  /\ \A i \in 1..Len(q) : \A j \in i..Len(q) : q[i][2] <= q[j][2]
  /\ Len(q) > 0 => q[Len(q)][2] - q[1][2] <= 1

\* The queue inside the next iteration of the loop: after the shift and the
\* first k of the four neighbours.
queueWithin(k) ==
  LET shifted == shift(queue)
      ns == neighbors(shifted.entry[1])
  IN visitNeighbors([visited |-> visited, queue |-> shifted.rest],
                    SubSeq(ns, 1, k), 1, shifted.entry[2]).queue

\* C27: the order of the frontier.  At every point of solve, between two
\* iterations and inside one, the move counts in the queue do not decrease
\* from head to tail and differ by at most 1, and the entry that is taken
\* next has the least move count of the queue: no grid with count d + 1 is
\* taken while one with count d waits.
C27_FrontierOrder ==
  pc = "solve" =>
    /\ Ordered(queue)
    /\ \A i \in 1..Len(queue) : shift(queue).entry[2] <= queue[i][2]
    /\ (Len(queue) > 0 /\ getEmptyBowlCount(Head(queue)[1]) # 0) =>
         \A k \in 0..4 : Ordered(queueWithin(k))

C27_Witness ==
  /\ pc = "solve"
  /\ Len(queue) >= 3
  /\ queue[1][2] = 2
  /\ queue[Len(queue)][2] = 3
  /\ Ordered(queue)

\* The keys of the grids in a queue, in order.
keysOf(q) == [i \in 1..Len(q) |-> makeGridString(q[i][1])]

Distinct(seq) == \A i \in 1..Len(seq) : \A j \in 1..Len(seq) : seq[i] = seq[j] => i = j

\* C28: within one call of solve no grid content is enqueued twice.  Every
\* grid in the queue has its key in visited and no two have the same key;
\* and in every iteration the entries added follow the rest of the queue,
\* their keys were not in visited before and are in it after, differ from
\* each other and from the key of the grid expanded (a move that changes
\* nothing adds no entry), and visited grows by exactly these keys.
C28_NoDoubleEnqueue ==
  /\ [](pc = "solve" =>
          /\ \A i \in 1..Len(queue) : keysOf(queue)[i] \in visited
          /\ Distinct(keysOf(queue)))
  /\ [][(pc = "solve" /\ Len(queue) > 0) =>
          LET added == SubSeq(queue', Len(queue), Len(queue'))
              addedKeys == {keysOf(added)[i] : i \in 1..Len(added)}
          IN /\ SubSeq(queue', 1, Len(queue) - 1) = Tail(queue)
             /\ addedKeys \cap visited = {}
             /\ makeGridString(Head(queue)[1]) \in visited \ addedKeys
             /\ Distinct(keysOf(added))
             /\ visited' = visited \cup addedKeys]_vars

C28_Witness ==
  /\ pc = "solve"
  /\ Len(queue) >= 2
  /\ Distinct(keysOf(queue))
  /\ Cardinality(visited) > Len(queue) + 2
  /\ \E d \in Dirs : moveCat(Head(queue)[1], d[1], d[2]) = Head(queue)[1]
  /\ \E d \in Dirs : makeGridString(moveCat(Head(queue)[1], d[1], d[2])) \notin visited

\* Every grid that moves reach, with the least number of state-changing
\* moves that reach it: the pairs <<grid, d>>, layer by layer.
RECURSIVE Distances(_, _, _, _)
Distances(seen, frontier, d, found) ==
  IF frontier = {} THEN found
  ELSE const(UNION {Succ(s) : s \in frontier} \ seen, LAMBDA new :
         Distances(seen \cup new, new, d + 1, found \cup {<<s, d>> : s \in frontier}))

\* C29: every entry (grid, n) in solve's queue has for n the length of a
\* shortest sequence of state-changing moves from solve's grid to that grid.
C29_QueueDistances ==
  (pc = "solve" /\ Len(queue) > 0) =>
    const(Distances({solveGrid}, {solveGrid}, 0, {}), LAMBDA shortest :
      \A i \in 1..Len(queue) : <<queue[i][1], queue[i][2]>> \in shortest)

C29_Witness ==
  /\ pc = "solve"
  /\ caller = "none"
  /\ solveGrid # makeGridFromLines(LevelTwo)
  /\ solveGrid \in Reachable(makeGridFromLines(LevelTwo))
  /\ Len(queue) >= 2
  /\ queue[1][2] = 4
  /\ queue[Len(queue)][2] = 5
  /\ <<queue[Len(queue)][1], 5>> \in Distances({solveGrid}, {solveGrid}, 0, {})

\* C30: in the Game, after any moves and resets, whenever solve of the
\* current grid is a number, moves plus that number is at least minMoves;
\* so a won level has a moves counter of at least minMoves.
C30_NeverBelowMinMoves ==
  pc = "idle" =>
    /\ minMovesNow = solve(grid)
    /\ minMovesNow \in Nat => moves + minMovesNow >= minMoves
    /\ won => moves >= minMoves

C30_Witness ==
  /\ pc = "idle"
  /\ resetCount = 2
  /\ won
  /\ minMovesNow = 0
  /\ minMoves = 3
  /\ moves = 5

\* The labels from best to worst.
labelRank(label) ==
  CASE label = "perfect" -> 0
    [] label = "great" -> 1
    [] label = "okay" -> 2
    [] label = "doom" -> 3

\* The last move was accepted and nothing was reset since: the Game shows
\* the grid it returned, one move after it showed its input.
moveShown ==
  pc = "idle" /\ moveMade /\ moves > 0 /\ grid = outGrid /\ ~SameContent(outGrid, inGrid)

\* C31: between two resets the progress label never improves.  After each
\* accepted move solve of the grid is at most 1 less than before it, so moves
\* plus solve is what it was or larger, null stays null, and the label shown
\* is the one shown before the move or one further along perfect, great,
\* okay, doom.
C31_LabelNeverImproves ==
  moveShown =>
    const(solve(inGrid), LAMBDA before :
      /\ before = null => minMovesNow = null
      /\ (before # null /\ minMovesNow # null) =>
           /\ minMovesNow >= before - 1
           /\ moves + minMovesNow >= (moves - 1) + before
      /\ labelRank(progress) >= labelRank(computeProgress(minMoves, moves - 1, before)))

C31_Witness ==
  /\ moveShown
  /\ computeProgress(minMoves, moves - 1, solve(inGrid)) = "great"
  /\ progress = "okay"

\* C32: reset.  Every reset, the mount effect of a level or "I'm stuck"
\* after any accepted moves, leaves a grid equal cell for cell to the level's
\* grid and a moves counter of 0, for which computeProgress with solve of
\* that grid is "perfect"; and that is the label the Game shows next.
C32_Reset ==
  /\ []((pc = "idle" /\ moves = 0) =>
          (SameContent(grid, levelGrid) /\ progress = "perfect"))
  /\ [][resetCount' # resetCount =>
          /\ SameContent(grid', levelGrid')
          /\ moves' = 0
          /\ computeProgress(minMoves', 0, solve(grid')) = "perfect"]_vars

C32_Witness ==
  /\ pc = "idle"
  /\ resetCount = 2
  /\ moves = 0
  /\ moveMade
  /\ ~SameContent(outGrid, inGrid)
  /\ ~SameContent(outGrid, levelGrid)
  /\ SameContent(grid, levelGrid)
  /\ progress = "perfect"

\* A call of moveCat on its own that returned a grid, on a grid with one cat:
\* the cat, the direction, and the cell k steps from the cat that way.
moveCalled ==
  called("moveCat") /\ call.ret # ThrownGrid /\ Cardinality(CatCells(call.args[1])) = 1
callCat == CHOOSE p \in CatCells(call.args[1]) : TRUE
callCell(k) ==
  cellAt(call.args[1], callCat[1] + k * call.args[2], callCat[2] + k * call.args[3])
callPush == callCell(1) \in {FOOD, FULL_BOWL} /\ callCell(2) \in {EMPTY, BOWL}

\* The unfilled targets after the call, less those before it.
callDelta == getEmptyBowlCount(call.ret) - getEmptyBowlCount(call.args[1])

\* C33: the number of unfilled targets is the same after a plain move (onto
\* EMPTY or BOWL) and after a blocked move; a push changes it by -1 when FOOD
\* lands on BOWL, by +1 when FULL_BOWL lands on EMPTY, and by 0 when FOOD
\* lands on EMPTY or FULL_BOWL on BOWL.
C33_UnfilledDelta ==
  moveCalled =>
    /\ callCell(1) \in {EMPTY, BOWL} => callDelta = 0
    /\ SameContent(call.ret, call.args[1]) => callDelta = 0
    /\ ~callPush => callDelta = 0
    /\ callPush =>
         callDelta = (CASE callCell(1) = FOOD /\ callCell(2) = BOWL -> -1
                        [] callCell(1) = FULL_BOWL /\ callCell(2) = EMPTY -> 1
                        [] callCell(1) = FOOD /\ callCell(2) = EMPTY -> 0
                        [] callCell(1) = FULL_BOWL /\ callCell(2) = BOWL -> 0)

C33_Witness ==
  /\ moveCalled
  /\ callCell(1) = FULL_BOWL
  /\ callCell(2) = BOWL
  /\ ~SameContent(call.ret, call.args[1])
  /\ getEmptyBowlCount(call.args[1]) = 1
  /\ callDelta = 0

Walls(g) == {p \in Positions(g) : g[p[1]][p[2]] = WALL}

\* C34: after any sequence of moves, in the Game and inside solve, every
\* grid has the level's number of rows and columns, WALL exactly where the
\* level has WALL, and a bowl (BOWL, FULL_BOWL or CAT_BOWL) exactly where
\* the level has one.
C34_WallsAndTargetsFixed ==
  \A g \in HeldGrids :
    /\ getSize(g) = getSize(levelGrid)
    /\ \A r \in 1..Len(g) : Len(g[r]) = Len(levelGrid[r])
    /\ Walls(g) = Walls(levelGrid)
    /\ Targets(g) = Targets(levelGrid)

C34_Witness ==
  /\ pc = "idle"
  /\ moves >= 3
  /\ moveMade
  /\ grid = outGrid
  /\ catCell = CAT_BOWL
  /\ adjCell = EMPTY
  /\ outGrid[catIn[1]][catIn[2]] = BOWL
  /\ FoodCells(grid) # FoodCells(levelGrid)
  /\ Walls(grid) = Walls(levelGrid)
  /\ Targets(grid) = Targets(levelGrid)

\* The positions where the grid returned by the last call differs from its
\* input.
changedCells == {p \in Positions(inGrid) : outGrid[p[1]][p[2]] # inGrid[p[1]][p[2]]}

\* C35: one call of moveCat changes at most three cells, all among the cat's
\* cell, the cell next to it in the direction of the move and the cell
\* behind that one; every other cell of the grid returned is the input's,
\* and the cell behind is changed by a push only.
C35_AtMostThreeCells ==
  (moveMade /\ outGrid # ThrownGrid) =>
    /\ Len(outGrid) = Len(inGrid)
    /\ \A r \in 1..Len(inGrid) : Len(outGrid[r]) = Len(inGrid[r])
    /\ Cardinality(changedCells) <= 3
    /\ changedCells \subseteq {catIn, adjPos, landPos}
    /\ \A p \in Positions(inGrid) \ {catIn, adjPos, landPos} :
         outGrid[p[1]][p[2]] = inGrid[p[1]][p[2]]
    /\ landPos \in changedCells => adjCell \in {FOOD, FULL_BOWL}

C35_Witness ==
  /\ moveMade
  /\ lastMove.key = "ArrowDown"
  /\ changedCells = {catIn, adjPos, landPos}
  /\ Cardinality(changedCells) = 3
  /\ Cardinality(Positions(inGrid) \ changedCells) = 22

\* C36: solve returns 0 exactly when its grid has no unfilled bowl.  A grid
\* that is won already, and a grid without any bowl, give 0, and the call
\* returns before any move is tried: nothing but the grid itself was visited.
C36_ZeroIffWon ==
  (pc = "return" /\ caller = "none") =>
    /\ (result = 0) <=> (getEmptyBowlCount(solveGrid) = 0)
    /\ (result = 0) <=> Won(solveGrid)
    /\ Targets(solveGrid) = {} => result = 0
    /\ result = 0 => (visited = {makeGridString(solveGrid)} /\ queue = <<>>)

C36_Witness ==
  /\ pc = "return"
  /\ caller = "none"
  /\ Targets(solveGrid) = {}
  /\ FoodCells(solveGrid) # {}
  /\ result = 0
  /\ Cardinality(visited) = 1

\* A move and the opposite move, called on a grid with one cat.
movedBack == called("moveCatBack") /\ Cardinality(CatCells(call.args[1])) = 1

\* C37: plain moves are reversible.  When the cell next to the cat is EMPTY
\* or BOWL, moveCat puts the cat on it and moves nothing else, and moveCat
\* in the opposite direction on the grid returned gives a grid equal cell for
\* cell to the first input.
C37_PlainMoveReversible ==
  (movedBack /\ callCell(1) \in {EMPTY, BOWL}) =>
    /\ call.ret[1] # ThrownGrid
    /\ CatCells(call.ret[1]) = {<<callCat[1] + call.args[2], callCat[2] + call.args[3]>>}
    /\ FoodCells(call.ret[1]) = FoodCells(call.args[1])
    /\ call.ret[2] # ThrownGrid
    /\ SameContent(call.ret[2], call.args[1])

C37_Witness ==
  /\ movedBack
  /\ callCell(0) = CAT_BOWL
  /\ callCell(1) = BOWL
  /\ callCell(2) = FOOD
  /\ ~SameContent(call.ret[1], call.args[1])
  /\ SameContent(call.ret[2], call.args[1])

\* C38: when the grid handed to solve has fewer foods (FOOD and FULL_BOWL)
\* than bowls (BOWL, FULL_BOWL and CAT_BOWL), solve returns null, and it
\* returns it when the queue has run empty.
C38_FewerPiecesNull ==
  (/\ pc \in {"return", "raised"}
   /\ caller = "none"
   /\ Cardinality(FoodCells(solveGrid)) < Cardinality(Targets(solveGrid)))
  => (pc = "return" /\ result = null /\ queue = <<>>)

C38_Witness ==
  /\ pc = "return"
  /\ caller = "none"
  /\ Cardinality(FoodCells(solveGrid)) = 1
  /\ Cardinality(Targets(solveGrid)) = 2
  /\ \E s \in Reachable(solveGrid) : getEmptyBowlCount(s) < getEmptyBowlCount(solveGrid)
  /\ result = null
  /\ Cardinality(visited) > 10

\* The three labels of utils.ts for the four of progress.ts.
toThree(label) == IF label \in {"great", "okay"} THEN "good" ELSE label

\* C39: the computeProgress with four labels refines the one with three.
\* For every minMoves, moves and minMovesRemaining (a number or null), what
\* progress.ts returns, with "great" and "okay" read as "good", is what
\* utils.ts returns.
C39_FourRefinesThree ==
  /\ called("computeProgress") =>
       /\ toThree(call.ret) = computeProgressUtils(call.args[1], call.args[2], call.args[3])
       /\ toThree(call.ret) \in {"perfect", "good", "doom"}
  /\ called("computeProgressUtils") =>
       call.ret = toThree(computeProgress(call.args[1], call.args[2], call.args[3]))

C39_Witness ==
  /\ called("computeProgressUtils")
  /\ call.args[3] # null
  /\ call.args[2] + call.args[3] < call.args[1]
  /\ computeProgress(call.args[1], call.args[2], call.args[3]) = "great"
  /\ call.ret = "good"

TypeOK ==
  /\ levelIndex \in 1..Len(LEVELS)
  /\ moves \in 0..MaxMoves
  /\ resetCount \in 0..MaxResets
  /\ pc \in {"App", "solve", "return", "raised", "unsolvable", "mount", "render",
            "effect", "idle"}

=============================================================================
